---- MODULE Spec2Model ----
(***************************************************************************)
(* Model of ghcontributions: main's loop over the credentials              *)
(* (main.go), Reporter.NewReporter, Reporter.Collect, Reporter.Report and  *)
(* Reporter.Aggregate (package reporting), and the process-wide            *)
(* queryResults map they share.                                            *)
(***************************************************************************)
EXTENDS Integers, Sequences, FiniteSets, TLC

VARIABLES
    credentials,        \* main: *credentials, the usernames in file order
    config,             \* main: Configuration (firstReportingYear, lastReportingYear)
    thisYear,           \* time.Now().UTC().Year()
    pc,                 \* position of the single thread of control
    idx,                \* main: index of the range loop over *credentials
    reporter,           \* main: var reporter reporting.Reporter
    err,                \* main: err; after log.Fatal, the error it logged
    targetYear,         \* Collect: loop variable
    queryResult,        \* Collect: var queryResult, decoded into by every query
    queryResults,       \* package var queryResults: map[string]QueryResult
    aggregatedResults,  \* Aggregate: named result
    uniqueRepositories, \* Aggregate: map[string]int
    ranged,             \* Aggregate: keys of *queryResults the range loop has visited
    queried,            \* history: the queries of the current Collect call, in order
    queryCount,         \* history: queries issued in the run, per <<user, year>>
    writeCount,         \* history: assignments to queryResults[key] in the run, per key
    aggregateCalls      \* history: calls of Aggregate in the run

vars == <<credentials, config, thisYear, pc, idx, reporter, err, targetYear,
          queryResult, queryResults, aggregatedResults, uniqueRepositories,
          ranged, queried, queryCount, writeCount, aggregateCalls>>

-----------------------------------------------------------------------------
(* Bounds *)

\* Longest credential list of a run (Spec).
MaxCredentials == 2

\* In a run (Spec) the current year is DefaultFirstContributionYear + RunSpan.
RunSpan == 1

\* For one Collect call (CollectSpec) the current year is at most
\* DefaultFirstContributionYear + MaxSpan.
MaxSpan == 3

\* Largest store handed to Aggregate on its own (AggregateSpec).
MaxSnapshots == 2

-----------------------------------------------------------------------------
(* Constants and values *)

\* "Validate the start year, default to 2000"
DefaultFirstContributionYear == 2000

Usernames == {"", "a", "b"}

\* Credentials: []Credential, here the Username of each
CredentialLists ==
    UNION { [1..n -> Usernames] : n \in 0..MaxCredentials }

\* -firstyear / -lastyear of a run of several credentials
RunFirstYears == {0, DefaultFirstContributionYear + 1}
RunLastYears == {0, DefaultFirstContributionYear + RunSpan - 1}

\* -firstyear / -lastyear of a run of one credential: negative, unset, before
\* the floor, in range, and in the future
YearInputs ==
    {-1, 0, DefaultFirstContributionYear - 1}
        \cup (DefaultFirstContributionYear .. (DefaultFirstContributionYear + MaxSpan + 1))

Timestamps == {1700000000, 1700000001}

NoError == "nil"
InvalidUser == "user cannot be blank in constructing a query"
QueryFailure == "query failed"

Repo(name, url, count) == [Name |-> name, URL |-> url, TotalCount |-> count]

\* The fields of QueryResult that the program reads.
QueryResultOf(login, past, commits, issues, prs, reviews, cl, il, pl, rl) ==
    [ Login                                      |-> login,
      HasActivityInThePast                       |-> past,
      TotalCommitContributions                   |-> commits,
      TotalIssueContributions                    |-> issues,
      TotalPullRequestContributions              |-> prs,
      TotalPullRequestReviewContributions        |-> reviews,
      CommitContributionsByRepository            |-> cl,
      IssueContributionsByRepository             |-> il,
      PullRequestContributionsByRepository       |-> pl,
      PullRequestReviewContributionsByRepository |-> rl ]

\* QueryResult{}
ZeroQueryResult ==
    QueryResultOf("", FALSE, 0, 0, 0, 0, <<>>, <<>>, <<>>, <<>>)

\* Reporter{}
ZeroReporter == [User |-> "", LastYear |-> 0, FirstYear |-> 0]

\* AggregatedResults{}
ZeroAggregatedResults ==
    [ Timestamp                |-> 0,
      TotalCommitContributions |-> 0,
      TotalRepositories        |-> 0,
      TotalOtherContributions  |-> 0 ]

EmptyMap == [k \in {} |-> 0]

\* m[k] = v on a Go map
MapPut(m, k, v) == [x \in (DOMAIN m) \cup {k} |-> IF x = k THEN v ELSE m[x]]

\* m[k], the zero value when k is absent
MapGet(m, k) == IF k \in DOMAIN m THEN m[k] ELSE 0

-----------------------------------------------------------------------------
(* Reporter.NewReporter *)

\* if firstYear < DefaultFirstContributionYear || firstYear > thisYear
ValidateFirstYear(firstYear, year) ==
    IF firstYear < DefaultFirstContributionYear \/ firstYear > year
    THEN DefaultFirstContributionYear
    ELSE firstYear

\* if lastYear > thisYear
ClampLastYear(lastYear, year) ==
    IF lastYear > year THEN year ELSE lastYear

\* ResetLastYear without its "lastYear < firstYear" test
ResetLastYearOnlyUnset(lastYear, firstYear, year) ==
    IF lastYear = 0 THEN year ELSE lastYear

\* if lastYear == 0 || lastYear < firstYear
ResetLastYear(lastYear, firstYear, year) ==
    IF lastYear = 0 \/ lastYear < firstYear THEN year ELSE lastYear

\* UserIsBlank without the test
UserNeverBlank(user) == FALSE

\* if user == "" { return Reporter{}, err }
UserIsBlank(user) == user = ""

\* The pair (reporter, err) NewReporter returns.
NewReporter(user, firstYear, lastYear, year) ==
    IF UserIsBlank(user)
    THEN [reporter |-> ZeroReporter, err |-> InvalidUser]
    ELSE LET first == ValidateFirstYear(firstYear, year)
             last  == ResetLastYear(ClampLastYear(lastYear, year), first, year)
         IN  [ reporter |-> [User |-> user, LastYear |-> last, FirstYear |-> first],
               err      |-> NoError ]

-----------------------------------------------------------------------------
(* Reporter.Collect *)

\* strconv.Itoa
Itoa(n) == ToString(n)

\* UserYear without the year
UserYearWithoutYear(user, year) == user

\* userYear := r.User + "-" + strconv.Itoa(targetYear)
UserYear(user, year) == user \o "-" \o Itoa(year)

\* for targetYear := r.LastYear; ...
FirstTargetYear(r) == r.LastYear

\* ...; targetYear >= r.FirstYear; ...
CollectLoopCondition(year, r) == year >= r.FirstYear

\* NextTargetYear stepping over a year
NextTargetYearSkipping(year) == year - 2

\* ...; targetYear--
NextTargetYear(year) == year - 1

\* LoginResolved without the test
LoginAlwaysResolved(result) == TRUE

\* if githubv4.String(queryResult.User.Login) != ""
LoginResolved(result) == result.Login # ""

\* CollectBreaks with the test inverted
CollectBreaksWhenActive(result) == result.HasActivityInThePast

\* if !hasActivityInThePast { break }
CollectBreaks(result) == ~result.HasActivityInThePast

\* The contributions a successful query of a run may report for a user.
RunCollections ==
    { QueryResultOf("", TRUE, 3, 1, 1, 0,
                    <<Repo("x", "u/x", 3)>>, <<Repo("x", "u/x", 1)>>,
                    <<Repo("y", "u/y", 1)>>, <<>>) }

\* What a successful query decodes into queryResult: the login is the user's or
\* empty, the early-activity signal is either value.
Responses(user) ==
    { [c EXCEPT !.Login = login, !.HasActivityInThePast = past] :
        c \in RunCollections, login \in {user, ""}, past \in BOOLEAN }

-----------------------------------------------------------------------------
(* Reporter.Aggregate *)

\* RepositoryKey by URL instead of name
RepositoryKeyByURL(repository) == repository.URL

\* string(repository.Repository.Name), the key of uniqueRepositories
RepositoryKey(repository) == repository.Name

\* uniqueRepositories[name] = uniqueRepositories[name] + 1
CountRepository(unique, repository) ==
    MapPut(unique, RepositoryKey(repository),
           MapGet(unique, RepositoryKey(repository)) + 1)

\* for _, repository := range <one ...ContributionsByRepository list>
RECURSIVE CountRepositories(_, _)
CountRepositories(unique, list) ==
    IF list = <<>>
    THEN unique
    ELSE CountRepositories(CountRepository(unique, Head(list)), Tail(list))

\* The four range loops over the lists of one queryResult, in source order.
CountAllRepositories(unique, result) ==
    CountRepositories(
        CountRepositories(
            CountRepositories(
                CountRepositories(unique, result.CommitContributionsByRepository),
                result.IssueContributionsByRepository),
            result.PullRequestContributionsByRepository),
        result.PullRequestReviewContributionsByRepository)

\* AddCommitContributions with "=" for "+="
LastCommitContributions(total, result) == result.TotalCommitContributions

\* aggregatedResults.TotalCommitContributions += ...
AddCommitContributions(total, result) ==
    total + result.TotalCommitContributions

\* aggregatedResults.TotalOtherContributions += (issues + pull requests + reviews)
AddOtherContributions(total, result) ==
    total + ( result.TotalIssueContributions
            + result.TotalPullRequestContributions
            + result.TotalPullRequestReviewContributions )

\* One iteration of "for userYear, queryResult := range *queryResults".
AggregateOne(agg, result) ==
    [agg EXCEPT
        !.TotalCommitContributions = AddCommitContributions(@, result),
        !.TotalOtherContributions  = AddOtherContributions(@, result)]

\* aggregatedResults.TotalRepositories = len(uniqueRepositories)
TotalRepositoriesOf(unique) == Cardinality(DOMAIN unique)

-----------------------------------------------------------------------------
(* main *)

\* LoopFinished one credential early
LoopFinishedEarly == idx >= Len(credentials)

\* the range loop over *credentials has no credential left
LoopFinished == idx > Len(credentials)

InitWith(lists, firstYears, lastYears, years, stores) ==
    /\ credentials \in lists
    /\ config \in [firstReportingYear : firstYears, lastReportingYear : lastYears]
    /\ thisYear \in years
    /\ queryResults \in stores
    /\ pc = "loop"
    /\ idx = 1
    /\ reporter = ZeroReporter
    /\ err = NoError
    /\ targetYear = 0
    /\ queryResult = ZeroQueryResult
    /\ aggregatedResults = ZeroAggregatedResults
    /\ uniqueRepositories = EmptyMap
    /\ ranged = {}
    /\ queried = <<>>
    /\ queryCount = EmptyMap
    /\ writeCount = EmptyMap
    /\ aggregateCalls = 0

\* A run over a list of credentials.
Init ==
    InitWith(CredentialLists, RunFirstYears, RunLastYears,
             {DefaultFirstContributionYear + RunSpan}, {EmptyMap})

\* main.go 53-63: the next credential; NewReporter, then log.Fatalf on its error or
\* the entry of Collect up to its loop.
NextCredential ==
    /\ pc = "loop"
    /\ ~LoopFinished
    /\ LET made == NewReporter(credentials[idx], config.firstReportingYear,
                               config.lastReportingYear, thisYear)
       IN  /\ reporter' = made.reporter
           /\ err' = made.err
           /\ IF made.err # NoError
              THEN /\ pc' = "exit"
                   /\ UNCHANGED <<targetYear, queryResult, queried, queryResults>>
              ELSE /\ pc' = "collect"
                   /\ targetYear' = FirstTargetYear(made.reporter)
                   /\ queryResult' = ZeroQueryResult
                   /\ queried' = <<>>
                   /\ UNCHANGED queryResults
    /\ UNCHANGED <<credentials, config, thisYear, idx, aggregatedResults,
                   uniqueRepositories, ranged, queryCount, writeCount,
                   aggregateCalls>>

\* Collect 157-173: the query of targetYear returns an error; log.Fatal ends the
\* process before "return err".
QueryFails ==
    /\ pc = "collect"
    /\ CollectLoopCondition(targetYear, reporter)
    /\ queried' = Append(queried, [year |-> targetYear, outcome |-> "error"])
    /\ queryCount' = MapPut(queryCount, <<reporter.User, targetYear>>,
                            MapGet(queryCount, <<reporter.User, targetYear>>) + 1)
    /\ err' = QueryFailure
    /\ pc' = "exit"
    /\ UNCHANGED <<credentials, config, thisYear, idx, reporter, targetYear,
                   queryResult, queryResults, aggregatedResults,
                   uniqueRepositories, ranged, writeCount, aggregateCalls>>

\* Collect 157-183: the query of targetYear succeeds; the store, the break, and
\* either the next iteration or the return to main (main.go 63-67).
QuerySucceeds ==
    /\ pc = "collect"
    /\ CollectLoopCondition(targetYear, reporter)
    /\ \E response \in Responses(reporter.User) :
        LET userYear == UserYear(reporter.User, targetYear)
        IN  /\ queryResult' = response
            /\ queried' = Append(queried,
                    [ year |-> targetYear,
                      outcome |-> IF response.HasActivityInThePast
                                  THEN "past" ELSE "nopast" ])
            /\ queryCount' = MapPut(queryCount, <<reporter.User, targetYear>>,
                    MapGet(queryCount, <<reporter.User, targetYear>>) + 1)
            /\ IF LoginResolved(response)
               THEN /\ queryResults' = MapPut(queryResults, userYear, response)
                    /\ writeCount' = MapPut(writeCount, userYear,
                                            MapGet(writeCount, userYear) + 1)
               ELSE UNCHANGED <<queryResults, writeCount>>
            /\ IF CollectBreaks(response)
               THEN /\ pc' = "loop"
                    /\ idx' = idx + 1
                    /\ err' = NoError
                    /\ UNCHANGED targetYear
               ELSE /\ targetYear' = NextTargetYear(targetYear)
                    /\ UNCHANGED <<pc, idx, err>>
    /\ UNCHANGED <<credentials, config, thisYear, reporter, aggregatedResults,
                   uniqueRepositories, ranged, aggregateCalls>>

\* Collect 157, 184: the loop condition fails; Collect returns nil and main goes
\* on to the next credential.
CollectReturns ==
    /\ pc = "collect"
    /\ ~CollectLoopCondition(targetYear, reporter)
    /\ pc' = "loop"
    /\ idx' = idx + 1
    /\ err' = NoError
    /\ UNCHANGED <<credentials, config, thisYear, reporter, targetYear,
                   queryResult, queryResults, aggregatedResults,
                   uniqueRepositories, ranged, queried, queryCount, writeCount,
                   aggregateCalls>>

\* main.go 68, Report 191, Aggregate 212-213: after the loop, Report calls
\* Aggregate(&queryResults).
Report ==
    /\ pc = "loop"
    /\ LoopFinished
    /\ pc' = "aggregate"
    /\ aggregatedResults' = ZeroAggregatedResults
    /\ uniqueRepositories' = EmptyMap
    /\ ranged' = {}
    /\ aggregateCalls' = aggregateCalls + 1
    /\ UNCHANGED <<credentials, config, thisYear, idx, reporter, err, targetYear,
                   queryResult, queryResults, queried, queryCount, writeCount>>

\* Aggregate 215-238: one iteration of the range over the map, which visits the
\* keys in an order the language leaves open.
AggregateRange ==
    /\ pc = "aggregate"
    /\ \E userYear \in (DOMAIN queryResults) \ ranged :
        /\ aggregatedResults' = AggregateOne(aggregatedResults, queryResults[userYear])
        /\ uniqueRepositories' =
                CountAllRepositories(uniqueRepositories, queryResults[userYear])
        /\ ranged' = ranged \cup {userYear}
    /\ UNCHANGED <<credentials, config, thisYear, pc, idx, reporter, err,
                   targetYear, queryResult, queryResults, queried, queryCount,
                   writeCount, aggregateCalls>>

\* Aggregate 239-241, Report 196-201, main.go 69: the range is over; the totals
\* are completed, serialized and logged.
AggregateReturns ==
    /\ pc = "aggregate"
    /\ ranged = DOMAIN queryResults
    /\ \E now \in Timestamps :
        aggregatedResults' =
            [aggregatedResults EXCEPT
                !.TotalRepositories = TotalRepositoriesOf(uniqueRepositories),
                !.Timestamp = now]
    /\ pc' = "done"
    /\ UNCHANGED <<credentials, config, thisYear, idx, reporter, err, targetYear,
                   queryResult, queryResults, uniqueRepositories, ranged, queried,
                   queryCount, writeCount, aggregateCalls>>

Next ==
    \/ NextCredential
    \/ QueryFails
    \/ QuerySucceeds
    \/ CollectReturns
    \/ Report
    \/ AggregateRange
    \/ AggregateReturns

Spec == Init /\ [][Next]_vars

-----------------------------------------------------------------------------
(* A run over one credential, for every requested year range *)

CollectInit ==
    InitWith([1..1 -> Usernames], YearInputs, YearInputs,
             DefaultFirstContributionYear .. (DefaultFirstContributionYear + MaxSpan),
             {EmptyMap})

CollectSpec == CollectInit /\ [][Next]_vars

-----------------------------------------------------------------------------
(* Aggregate applied to a given map *)

\* Snapshots a store may hold: the two users of the end-to-end scenario, one
\* repository name under two URLs and in two categories, a list that repeats a
\* name, and a year without contributions.
Snapshots ==
    { QueryResultOf("a", TRUE, 10, 2, 1, 0,
                    <<Repo("x", "a/x", 6), Repo("y", "a/y", 4)>>,
                    <<Repo("x", "a/x", 2)>>, <<Repo("y", "a/y", 1)>>, <<>>),
      QueryResultOf("b", FALSE, 5, 0, 3, 2,
                    <<Repo("y", "a/y", 5)>>, <<>>,
                    <<Repo("z", "b/z", 3)>>, <<Repo("y", "a/y", 2)>>),
      QueryResultOf("a", TRUE, 1, 0, 0, 0,
                    <<Repo("repoA", "a/repoA", 1)>>, <<>>, <<>>, <<>>),
      QueryResultOf("b", TRUE, 0, 1, 0, 1,
                    <<>>, <<Repo("repoA", "b/repoA", 1)>>, <<>>,
                    <<Repo("x", "a/x", 1), Repo("repoA", "b/repoA", 0),
                      Repo("x", "a/x", 0)>>),
      QueryResultOf("a", FALSE, 0, 0, 0, 0, <<>>, <<>>, <<>>, <<>>) }

StoreKeys ==
    { UserYear(user, year) :
        user \in {"a", "b"},
        year \in DefaultFirstContributionYear .. (DefaultFirstContributionYear + 1) }

Stores ==
    UNION { [keys -> Snapshots] :
              keys \in { k \in SUBSET StoreKeys : Cardinality(k) <= MaxSnapshots } }

AggregateInit ==
    InitWith({<<>>}, {0}, {0}, {DefaultFirstContributionYear + RunSpan}, Stores)

AggregateNext ==
    \/ Report
    \/ AggregateRange
    \/ AggregateReturns

AggregateSpec == AggregateInit /\ [][AggregateNext]_vars

\* Aggregate 215-238 when the range visits the keys in the given order.
RECURSIVE RangeInOrder(_, _, _)
RangeInOrder(state, store, order) ==
    IF order = <<>>
    THEN state
    ELSE RangeInOrder(
            [ agg    |-> AggregateOne(state.agg, store[Head(order)]),
              unique |-> CountAllRepositories(state.unique, store[Head(order)]) ],
            store, Tail(order))

\* Aggregate 212-239 for that order (the timestamp left at zero).
AggregateInOrder(store, order) ==
    LET end == RangeInOrder([agg |-> ZeroAggregatedResults, unique |-> EmptyMap],
                            store, order)
    IN  [end.agg EXCEPT !.TotalRepositories = TotalRepositoriesOf(end.unique)]

-----------------------------------------------------------------------------
(* Properties *)

Occurrences(user, list) == Cardinality({ i \in DOMAIN list : list[i] = user })

\* Collect has returned to main for the current reporter.
CollectReturned ==
    /\ pc \in {"loop", "aggregate", "done"}
    /\ reporter # ZeroReporter

RECURSIVE SumOver(_, _)
SumOver(f, S) ==
    IF S = {}
    THEN 0
    ELSE LET x == CHOOSE y \in S : TRUE
         IN  f[x] + SumOver(f, S \ {x})

RepositoryLists(result) ==
    { result.CommitContributionsByRepository,
      result.IssueContributionsByRepository,
      result.PullRequestContributionsByRepository,
      result.PullRequestReviewContributionsByRepository }

RepositoryNames(store) ==
    UNION { { list[i].Name : i \in DOMAIN list } :
              list \in UNION { RepositoryLists(store[k]) : k \in DOMAIN store } }

Orders(S) ==
    { order \in [1..Cardinality(S) -> S] :
        \A x \in S : \E i \in DOMAIN order : order[i] = x }

Totals(agg) ==
    << agg.TotalCommitContributions,
       agg.TotalOtherContributions,
       agg.TotalRepositories >>

\* C1: a query failure during Collect for one credential does not end the run:
\* the run goes on to the later credentials and to the final Aggregate.
C1_QueryFailureIsNotFatal ==
    ~(pc = "exit" /\ err = QueryFailure)

\* C2: within one Collect call, a query follows only a response whose
\* hasActivityInThePast was true (a false one is the last query of the call), and
\* a Collect that returned stopped either at such a response or at firstYear.
C2_EarlyExitOnLastResponse ==
    /\ \A i \in 1..Len(queried) :
            queried[i].outcome = "nopast" => i = Len(queried)
    /\ \A i \in 1..(Len(queried) - 1) : queried[i].outcome = "past"
    /\ CollectReturned =>
            /\ queried # <<>>
            /\ \/ queried[Len(queried)].outcome = "nopast"
               \/ queried[Len(queried)].year = reporter.FirstYear

\* C2 witness: range [2000, 2003], the flag false at 2001: exactly the queries
\* for 2003, 2002, 2001.
C2_Witness ==
    /\ CollectReturned
    /\ reporter.FirstYear = 2000
    /\ queried = << [year |-> 2003, outcome |-> "past"],
                    [year |-> 2002, outcome |-> "past"],
                    [year |-> 2001, outcome |-> "nopast"] >>

\* C3: for a non-empty user and any requested pair of years, the Reporter that
\* NewReporter returns has 2000 <= FirstYear <= LastYear <= current year.
C3_NormalizedRange ==
    (idx <= Len(credentials) /\ credentials[idx] # "" /\ pc # "loop") =>
        /\ reporter.User = credentials[idx]
        /\ 2000 <= reporter.FirstYear
        /\ reporter.FirstYear <= reporter.LastYear
        /\ reporter.LastYear <= thisYear

\* C3 witness: a requested last year earlier than the requested first year.
C3_Witness ==
    /\ pc = "collect"
    /\ config.firstReportingYear = 2002
    /\ config.lastReportingYear = 2001
    /\ thisYear = 2003
    /\ reporter.FirstYear = 2002
    /\ reporter.LastYear = 2003

\* C4 as stated: for any credential list, no (user, year) is queried more than
\* once and no key of the store is written more than once.
C4_WriteOncePerKey ==
    /\ \A q \in DOMAIN queryCount : queryCount[q] <= 1
    /\ \A k \in DOMAIN writeCount : writeCount[k] <= 1

\* C4 amended: no (user, year) is queried, and no key written, more often than
\* the username occurs in the credential list; with pairwise distinct usernames
\* that is at most once.
C4_OncePerOccurrence ==
    /\ \A q \in DOMAIN queryCount :
            /\ queryCount[q] <= Occurrences(q[1], credentials)
            /\ MapGet(writeCount, q[1] \o "-" \o ToString(q[2])) <= queryCount[q]
    /\ DOMAIN writeCount \subseteq
            { q[1] \o "-" \o ToString(q[2]) : q \in DOMAIN queryCount }

\* C4 witness: two distinct usernames, each with snapshots stored.
C4_Witness ==
    /\ pc = "done"
    /\ credentials = <<"a", "b">>
    /\ Cardinality(DOMAIN writeCount) >= 3
    /\ \A k \in DOMAIN writeCount : writeCount[k] = 1

\* C5: Aggregate returns the sum of the commit counts, the sum of the issue,
\* pull-request and review counts, and the number of distinct repository names
\* over all lists of all snapshots; all three are 0 for an empty store.
C5_AggregateTotals ==
    pc = "done" =>
        /\ aggregatedResults.TotalCommitContributions =
                SumOver([k \in DOMAIN queryResults |->
                            queryResults[k].TotalCommitContributions],
                        DOMAIN queryResults)
        /\ aggregatedResults.TotalOtherContributions =
                SumOver([k \in DOMAIN queryResults |->
                              queryResults[k].TotalIssueContributions
                            + queryResults[k].TotalPullRequestContributions
                            + queryResults[k].TotalPullRequestReviewContributions],
                        DOMAIN queryResults)
        /\ aggregatedResults.TotalRepositories =
                Cardinality(RepositoryNames(queryResults))
        /\ queryResults = EmptyMap => Totals(aggregatedResults) = <<0, 0, 0>>

\* C5 witness: the end-to-end scenario, commits 10 and 5, others 3 and 5,
\* repositories x, y and y, z.
C5_Witness ==
    /\ pc = "done"
    /\ Cardinality(DOMAIN queryResults) = 2
    /\ Totals(aggregatedResults) = <<15, 8, 3>>

\* C6: every snapshot in the result store has a non-empty login.
C6_NoEmptyLoginStored ==
    \A k \in DOMAIN queryResults : queryResults[k].Login # ""

\* C6 witness: a response with an empty login arrives after a stored one, in
\* the same Collect call.
C6_Witness ==
    /\ Len(queried) >= 2
    /\ queryResult.Login = ""
    /\ UserYear(reporter.User, reporter.LastYear) \in DOMAIN queryResults

\* C7: NewReporter with an empty user returns an error and the zero Reporter,
\* issues no query and leaves the store as it is.
C7_BlankUserRejected ==
    [][ (pc = "loop" /\ idx <= Len(credentials) /\ credentials[idx] = "") =>
            /\ reporter' = ZeroReporter
            /\ err' = InvalidUser
            /\ queryResults' = queryResults
            /\ queryCount' = queryCount
            /\ pc' # "collect" ]_vars

\* C7 witness: the second credential has an empty username, after the first
\* stored a snapshot.
C7_Witness ==
    /\ err = InvalidUser
    /\ reporter = ZeroReporter
    /\ idx = 2
    /\ queryResults # EmptyMap

\* C8: the years one Collect call queries are lastYear, lastYear - 1, ...,
\* none below firstYear.
C8_DescendingYears ==
    err # InvalidUser =>
        /\ \A i \in 1..Len(queried) :
                /\ queried[i].year = reporter.LastYear - (i - 1)
                /\ queried[i].year >= reporter.FirstYear
        /\ Len(queried) <= reporter.LastYear - reporter.FirstYear + 1

\* C8 witness: every year of [2000, 2003] queried.
C8_Witness ==
    /\ reporter.FirstYear = 2000
    /\ reporter.LastYear = 2003
    /\ Len(queried) = 4

C10_OrderIndependent ==
    /\ [](pc = "done" =>
            \A order \in Orders(DOMAIN queryResults) :
                Totals(aggregatedResults) =
                    Totals(AggregateInOrder(queryResults, order)))
    /\ [][queryResults' = queryResults]_vars

\* C10 witness: two snapshots with different counts were aggregated.
C10_Witness ==
    /\ pc = "done"
    /\ \E k1, k2 \in DOMAIN queryResults :
            queryResults[k1].TotalCommitContributions
                # queryResults[k2].TotalCommitContributions

====
